---- MODULE Spec2Model ----
(***************************************************************************)
(* The todo list component of src/src/App.tsx: the collection `todos`,    *)
(* the draft `inputValue`, the localStorage slot 'todos', and the effect   *)
(* that mirrors the collection into the slot; and the counter of          *)
(* ReducerApp (src/unnamed/part_000), a separate component.                *)
(*                                                                         *)
(* A JavaScript string is a sequence of UTF-16 code units.  A code unit    *)
(* is the one-character string of its character where a string of the     *)
(* model can hold it: the printable ASCII characters but the grave accent, *)
(* and "\t", "\n", "\f", "\r".  Any other code unit is the six-character   *)
(* string of a backslash, u and its four hex digits in lower case, such    *)
(* as "\\u0008" for the backspace.                                          *)
(*                                                                         *)
(* A JavaScript value is a record with its type in the field t:            *)
(*   undefined, null, boolean (v), number (v, e), string (v), array (v),   *)
(*   object (v).                                                           *)
(* A number is v * 10^e with e <= 0, and v not a multiple of 10 when       *)
(* e < 0; the numbers of the model are those whose v fits the integers of  *)
(* the model checker and whose double is a normal number.  An array holds  *)
(* the sequence of its elements, an object the sequence of its properties  *)
(* (key, value) in the order JavaScript enumerates them.                   *)
(***************************************************************************)
EXTENDS Integers, Sequences, FiniteSets

VARIABLES todos, inputValue, slot, phase

\* ReducerApp: the reducer state, and the inc and dec actions dispatched
\* since the last reset and the resets dispatched so far, kept for the
\* properties only.
VARIABLES count, incs, decs, resets

todoVars == <<todos, inputValue, slot, phase>>

counterVars == <<count, incs, decs, resets>>

vars == <<todos, inputValue, slot, phase, count, incs, decs, resets>>

\* Longest collection the add button is allowed to build.
MaxLen == 2

\* Largest id probed by the properties that quantify over ids.
MaxProbeId == 6

\* Most inc actions, and most dec actions, dispatched between two resets.
MaxDispatch == 6

\* Most reset actions dispatched.
MaxResets == 2

\* Values the user types into the text input.
Texts == { <<>>, <<"a">>, <<"\"", "\\", "\t">> }

ProbeIds == 0..MaxProbeId

----------------------------------------------------------------------------
(* JavaScript values *)

Undefined == [t |-> "undefined"]

Null == [t |-> "null"]

Boolean(b) == [t |-> "boolean", v |-> b]

\* An integer as a number value.
Number(n) == [t |-> "number", v |-> n, e |-> 0]

String(str) == [t |-> "string", v |-> str]

Array(elements) == [t |-> "array", v |-> elements]

Object(properties) == [t |-> "object", v |-> properties]

Property(key, value) == [key |-> key, value |-> value]

\* o.key for the keys the component reads (id, text, done): an own property
\* of an object, and undefined on every other value but null.
Get(o, key) ==
    IF o.t = "object" /\ \E k \in 1..Len(o.v) : o.v[k].key = key
    THEN o.v[CHOOSE k \in 1..Len(o.v) : o.v[k].key = key].value
    ELSE Undefined

\* a === b, where same tells whether a and b were read from the same item:
\* two arrays or objects are equal only when they are one.
StrictEquals(a, b, same) ==
    IF a.t # b.t THEN FALSE
    ELSE IF a.t \in {"array", "object"} THEN same
    ELSE a = b

\* Boolean(value)
ToBoolean(value) ==
    CASE value.t \in {"undefined", "null"} -> FALSE
      [] value.t = "boolean" -> value.v
      [] value.t = "number" -> value.v # 0
      [] value.t = "string" -> value.v # <<>>
      [] OTHER -> TRUE

----------------------------------------------------------------------------
(* Code units *)

Digits == <<"0", "1", "2", "3", "4", "5", "6", "7", "8", "9">>

HexDigits ==
    <<"0", "1", "2", "3", "4", "5", "6", "7", "8", "9",
      "a", "b", "c", "d", "e", "f">>

UpperHexDigits ==
    <<"0", "1", "2", "3", "4", "5", "6", "7", "8", "9",
      "A", "B", "C", "D", "E", "F">>

\* The code units U+0020 to U+007E.
Ascii ==
    <<" ", "!", "\"", "#", "$", "%", "&", "'", "(", ")", "*", "+", ",", "-",
      ".", "/", "0", "1", "2", "3", "4", "5", "6", "7", "8", "9", ":", ";",
      "<", "=", ">", "?", "@", "A", "B", "C", "D", "E", "F", "G", "H", "I",
      "J", "K", "L", "M", "N", "O", "P", "Q", "R", "S", "T", "U", "V", "W",
      "X", "Y", "Z", "[", "\\", "]", "^", "_", "\\u0060",
      "a", "b", "c", "d", "e",
      "f", "g", "h", "i", "j", "k", "l", "m", "n", "o", "p", "q", "r", "s",
      "t", "u", "v", "w", "x", "y", "z", "{", "|", "}", "~">>

IsHexDigit(c) ==
    \E d \in 1..16 : HexDigits[d] = c \/ UpperHexDigits[d] = c

HexValue(c) ==
    (CHOOSE d \in 1..16 : HexDigits[d] = c \/ UpperHexDigits[d] = c) - 1

\* The code unit with this number.
CodeUnit(n) ==
    CASE n = 9 -> "\t"
      [] n = 10 -> "\n"
      [] n = 12 -> "\f"
      [] n = 13 -> "\r"
      [] n >= 32 /\ n <= 126 -> Ascii[n - 31]
      [] OTHER -> "\\u" \o HexDigits[(n \div 4096) + 1]
                        \o HexDigits[((n \div 256) % 16) + 1]
                        \o HexDigits[((n \div 16) % 16) + 1]
                        \o HexDigits[(n % 16) + 1]

\* The number of a code unit.
CodeOf(c) ==
    IF c = "\t" THEN 9
    ELSE IF c = "\n" THEN 10
    ELSE IF c = "\f" THEN 12
    ELSE IF c = "\r" THEN 13
    ELSE IF Len(c) = 1 THEN 31 + (CHOOSE k \in 1..95 : Ascii[k] = c)
    ELSE HexValue(SubSeq(c, 3, 3)) * 4096
            + HexValue(SubSeq(c, 4, 4)) * 256
            + HexValue(SubSeq(c, 5, 5)) * 16
            + HexValue(SubSeq(c, 6, 6))

\* U+0000 to U+001F.
IsControl(c) ==
    \/ c \in {"\t", "\n", "\f", "\r"}
    \/ Len(c) > 1 /\ CodeOf(c) < 32

IsSurrogate(c) ==
    Len(c) > 1 /\ CodeOf(c) >= 55296 /\ CodeOf(c) <= 57343

IsHighSurrogate(c) == IsSurrogate(c) /\ CodeOf(c) <= 56319

IsLowSurrogate(c) == IsSurrogate(c) /\ CodeOf(c) >= 56320

----------------------------------------------------------------------------
(* JSON.stringify *)

RECURSIVE NaturalToString(_)
NaturalToString(n) ==
    IF n < 10 THEN <<Digits[n + 1]>>
    ELSE NaturalToString(n \div 10) \o <<Digits[(n % 10) + 1]>>

Zeros(n) == [k \in 1..n |-> "0"]

\* Number::toString of the number v * 10^e.
NumberToString(number) ==
    LET digits == NaturalToString(IF number.v < 0 THEN -number.v
                                  ELSE number.v)
        sign == IF number.v < 0 THEN <<"-">> ELSE <<>>
        k == Len(digits)
        n == k + number.e
    IN  IF number.e = 0 THEN sign \o digits
        ELSE IF n > 0
        THEN sign \o SubSeq(digits, 1, n) \o <<".">> \o SubSeq(digits, n + 1, k)
        ELSE IF n > -6
        THEN sign \o <<"0", ".">> \o Zeros(-n) \o digits
        ELSE sign \o <<digits[1]>>
                  \o (IF k > 1 THEN <<".">> \o SubSeq(digits, 2, k) ELSE <<>>)
                  \o <<"e", "-">> \o NaturalToString(1 - n)

UnicodeEscape(c) ==
    LET n == CodeOf(c) IN
    <<"\\", "u", HexDigits[(n \div 4096) + 1],
      HexDigits[((n \div 256) % 16) + 1],
      HexDigits[((n \div 16) % 16) + 1], HexDigits[(n % 16) + 1]>>

\* The mutant: a quote or a backslash is written as it is.
QuoteChar_raw(c) == <<c>>

\* QuoteJSONString on one code unit that is not a surrogate.
QuoteChar(c) ==
    CASE c = "\"" \/ c = "\\" -> <<"\\", c>>
      [] c = "\\u0008" -> <<"\\", "b">>
      [] c = "\t" -> <<"\\", "t">>
      [] c = "\n" -> <<"\\", "n">>
      [] c = "\f" -> <<"\\", "f">>
      [] c = "\r" -> <<"\\", "r">>
      [] OTHER -> IF IsControl(c) THEN UnicodeEscape(c) ELSE <<c>>

\* A high surrogate followed by a low one is written as it is, a lone
\* surrogate as its escape.
RECURSIVE QuoteChars(_)
QuoteChars(str) ==
    IF str = <<>> THEN <<>>
    ELSE IF IsHighSurrogate(str[1]) /\ Len(str) > 1 /\ IsLowSurrogate(str[2])
    THEN <<str[1], str[2]>> \o QuoteChars(SubSeq(str, 3, Len(str)))
    ELSE IF IsHighSurrogate(str[1]) \/ IsLowSurrogate(str[1])
    THEN UnicodeEscape(str[1]) \o QuoteChars(Tail(str))
    ELSE QuoteChar(Head(str)) \o QuoteChars(Tail(str))

QuoteString(str) == <<"\"">> \o QuoteChars(str) \o <<"\"">>

BooleanToString(b) ==
    IF b THEN <<"t", "r", "u", "e">> ELSE <<"f", "a", "l", "s", "e">>

NullToString == <<"n", "u", "l", "l">>

RECURSIVE JSONstringify(_)
RECURSIVE StringifyElements(_)
RECURSIVE StringifyProperties(_)

\* The elements of an array, an undefined one as null.
StringifyElements(list) ==
    LET one(value) == IF value.t = "undefined" THEN NullToString
                      ELSE JSONstringify(value)
    IN  IF list = <<>> THEN <<>>
        ELSE IF Len(list) = 1 THEN one(list[1])
        ELSE one(Head(list)) \o <<",">> \o StringifyElements(Tail(list))

\* The properties of an object but those whose value is undefined.
StringifyProperties(list) ==
    LET defined == SelectSeq(list, LAMBDA p : p.value.t # "undefined")
        one(p) == QuoteString(p.key) \o <<":">> \o JSONstringify(p.value)
    IN  IF defined = <<>> THEN <<>>
        ELSE IF Len(defined) = 1 THEN one(defined[1])
        ELSE one(Head(defined)) \o <<",">>
                \o StringifyProperties(Tail(defined))

\* JSON.stringify(value), for a value that is not undefined.
JSONstringify(value) ==
    CASE value.t = "null" -> NullToString
      [] value.t = "boolean" -> BooleanToString(value.v)
      [] value.t = "number" -> NumberToString(value)
      [] value.t = "string" -> QuoteString(value.v)
      [] value.t = "array" ->
            <<"[">> \o StringifyElements(value.v) \o <<"]">>
      [] value.t = "object" ->
            <<"{">> \o StringifyProperties(value.v) \o <<"}">>

----------------------------------------------------------------------------
(* JSON.parse: ok is FALSE where it throws a SyntaxError, next is the      *)
(* place after the text read.                                              *)

ParseFail == [ok |-> FALSE, val |-> Undefined, next |-> 0]

Parsed(value, next) == [ok |-> TRUE, val |-> value, next |-> next]

\* The code unit at place i, and "" past the end.
CharAt(s, i) == IF i >= 1 /\ i <= Len(s) THEN s[i] ELSE ""

IsDigit(c) == \E d \in 1..10 : Digits[d] = c

DigitValue(c) == (CHOOSE d \in 1..10 : Digits[d] = c) - 1

IsWhiteSpace(c) == c \in {" ", "\t", "\n", "\r"}

RECURSIVE SkipWhiteSpace(_, _)
SkipWhiteSpace(s, i) ==
    IF IsWhiteSpace(CharAt(s, i)) THEN SkipWhiteSpace(s, i + 1) ELSE i

Matches(s, i, lit) ==
    /\ i + Len(lit) - 1 <= Len(s)
    /\ SubSeq(s, i, i + Len(lit) - 1) = lit

\* The digits from place i on, read onto acc.
RECURSIVE ReadDigits(_, _, _)
ReadDigits(s, i, acc) ==
    IF IsDigit(CharAt(s, i))
    THEN ReadDigits(s, i + 1, acc * 10 + DigitValue(s[i]))
    ELSE [ok |-> TRUE, val |-> acc, next |-> i]

\* The number value v * 10^e.
RECURSIVE NormalNumber(_, _)
NormalNumber(v, e) ==
    IF v = 0 THEN Number(0)
    ELSE IF e > 0 THEN NormalNumber(v * 10, e - 1)
    ELSE IF e < 0 /\ v % 10 = 0 THEN NormalNumber(v \div 10, e + 1)
    ELSE [t |-> "number", v |-> v, e |-> e]

\* -? (0 | [1-9][0-9]*) (. [0-9]+)? ([eE] [+-]? [0-9]+)?
ParseNumber(s, i) ==
    LET negative == CharAt(s, i) = "-"
        first == IF negative THEN i + 1 ELSE i
        int == IF CharAt(s, first) = "0" THEN Parsed(0, first + 1)
               ELSE ReadDigits(s, first, 0)
        hasFraction == CharAt(s, int.next) = "."
        fraction == IF hasFraction THEN ReadDigits(s, int.next + 1, int.val)
                    ELSE int
        fractionDigits == IF hasFraction THEN fraction.next - int.next - 1
                          ELSE 0
        hasExponent == CharAt(s, fraction.next) \in {"e", "E"}
        expNegative == CharAt(s, fraction.next + 1) = "-"
        expFirst == IF CharAt(s, fraction.next + 1) \in {"+", "-"}
                    THEN fraction.next + 2 ELSE fraction.next + 1
        exponent == IF hasExponent THEN ReadDigits(s, expFirst, 0)
                    ELSE Parsed(0, fraction.next)
        magnitude == NormalNumber(fraction.val,
                        (IF expNegative THEN -exponent.val ELSE exponent.val)
                            - fractionDigits)
    IN  IF ~IsDigit(CharAt(s, first)) THEN ParseFail
        ELSE IF hasFraction /\ fractionDigits = 0 THEN ParseFail
        ELSE IF hasExponent /\ exponent.next = expFirst THEN ParseFail
        ELSE Parsed(IF negative THEN [magnitude EXCEPT !.v = -magnitude.v]
                    ELSE magnitude,
                    exponent.next)

\* The four hex digits of a \u escape.
ParseUnicodeEscape(s, i) ==
    IF /\ IsHexDigit(CharAt(s, i)) /\ IsHexDigit(CharAt(s, i + 1))
       /\ IsHexDigit(CharAt(s, i + 2)) /\ IsHexDigit(CharAt(s, i + 3))
    THEN Parsed(CodeUnit(HexValue(s[i]) * 4096 + HexValue(s[i + 1]) * 256
                            + HexValue(s[i + 2]) * 16 + HexValue(s[i + 3])),
                i + 4)
    ELSE ParseFail

\* The code units of a string literal after its opening quote.
RECURSIVE ReadChars(_, _, _)
ReadChars(s, i, acc) ==
    LET c == CharAt(s, i)
        d == CharAt(s, i + 1)
        u == ParseUnicodeEscape(s, i + 2)
    IN  IF c = "" THEN ParseFail
        ELSE IF c = "\"" THEN Parsed(String(acc), i + 1)
        ELSE IF c = "\\"
        THEN IF d \in {"\"", "\\", "/"}
                 THEN ReadChars(s, i + 2, Append(acc, d))
             ELSE IF d = "b" THEN ReadChars(s, i + 2, Append(acc, "\\u0008"))
             ELSE IF d = "f" THEN ReadChars(s, i + 2, Append(acc, "\f"))
             ELSE IF d = "n" THEN ReadChars(s, i + 2, Append(acc, "\n"))
             ELSE IF d = "r" THEN ReadChars(s, i + 2, Append(acc, "\r"))
             ELSE IF d = "t" THEN ReadChars(s, i + 2, Append(acc, "\t"))
             ELSE IF d = "u" /\ u.ok
                 THEN ReadChars(s, u.next, Append(acc, u.val))
             ELSE ParseFail
        ELSE IF IsControl(c) THEN ParseFail
        ELSE ReadChars(s, i + 1, Append(acc, c))

ParseString(s, i) ==
    IF CharAt(s, i) = "\"" THEN ReadChars(s, i + 1, <<>>) ELSE ParseFail

\* A key that is an array index: the decimal form of 0 to 2^32 - 2.
IsArrayIndex(key) ==
    /\ Len(key) >= 1
    /\ \A k \in 1..Len(key) : IsDigit(key[k])
    /\ Len(key) = 1 \/ key[1] # "0"
    /\ \/ Len(key) < 10
       \/ /\ Len(key) = 10
          /\ \/ key = <<"4", "2", "9", "4", "9", "6", "7", "2", "9", "4">>
             \/ \E k \in 1..10 :
                  /\ SubSeq(key, 1, k - 1)
                        = SubSeq(<<"4", "2", "9", "4", "9", "6", "7", "2",
                                   "9", "4">>, 1, k - 1)
                  /\ DigitValue(key[k])
                        < DigitValue(<<"4", "2", "9", "4", "9", "6", "7",
                                       "2", "9", "4">>[k])

\* a < b for two array indices.
IndexLess(a, b) ==
    \/ Len(a) < Len(b)
    \/ /\ Len(a) = Len(b)
       /\ \E k \in 1..Len(a) :
            /\ SubSeq(a, 1, k - 1) = SubSeq(b, 1, k - 1)
            /\ DigitValue(a[k]) < DigitValue(b[k])

\* CreateDataProperty: an own key keeps its place and takes the value; a
\* new array index goes among the array indices in ascending order, which
\* come first; any other new key goes last.
DefineProperty(properties, key, value) ==
    IF \E k \in 1..Len(properties) : properties[k].key = key
    THEN [k \in 1..Len(properties) |->
            IF properties[k].key = key THEN Property(key, value)
            ELSE properties[k]]
    ELSE IF IsArrayIndex(key)
    THEN LET before == Cardinality({ k \in 1..Len(properties) :
                            /\ IsArrayIndex(properties[k].key)
                            /\ IndexLess(properties[k].key, key) })
         IN  SubSeq(properties, 1, before) \o <<Property(key, value)>>
                \o SubSeq(properties, before + 1, Len(properties))
    ELSE Append(properties, Property(key, value))

RECURSIVE ParseValue(_, _)
RECURSIVE ParseElements(_, _, _)
RECURSIVE ParseMembers(_, _, _)
RECURSIVE ParseToken(_, _)

\* The elements of an array from place i on, after those of acc.
ParseElements(s, i, acc) ==
    LET element == ParseValue(s, i) IN
    IF ~element.ok THEN ParseFail
    ELSE IF CharAt(s, element.next) = ","
    THEN ParseElements(s, element.next + 1, Append(acc, element.val))
    ELSE IF CharAt(s, element.next) = "]"
    THEN Parsed(Array(Append(acc, element.val)), element.next + 1)
    ELSE ParseFail

\* The members of an object from place i on, after those of properties.
ParseMembers(s, i, properties) ==
    LET key == ParseString(s, SkipWhiteSpace(s, i))
        colon == SkipWhiteSpace(s, key.next)
        member == ParseValue(s, colon + 1)
        defined == DefineProperty(properties, key.val.v, member.val)
    IN  IF ~key.ok \/ CharAt(s, colon) # ":" THEN ParseFail
        ELSE IF ~member.ok THEN ParseFail
        ELSE IF CharAt(s, member.next) = ","
        THEN ParseMembers(s, member.next + 1, defined)
        ELSE IF CharAt(s, member.next) = "}"
        THEN Parsed(Object(defined), member.next + 1)
        ELSE ParseFail

\* A value from its first character on.
ParseToken(s, first) ==
    LET c == CharAt(s, first)
        inside == SkipWhiteSpace(s, first + 1)
    IN  IF c = "{"
        THEN IF CharAt(s, inside) = "}"
             THEN Parsed(Object(<<>>), inside + 1)
             ELSE ParseMembers(s, first + 1, <<>>)
        ELSE IF c = "["
        THEN IF CharAt(s, inside) = "]"
             THEN Parsed(Array(<<>>), inside + 1)
             ELSE ParseElements(s, first + 1, <<>>)
        ELSE IF c = "\"" THEN ParseString(s, first)
        ELSE IF c = "-" \/ IsDigit(c) THEN ParseNumber(s, first)
        ELSE IF Matches(s, first, BooleanToString(TRUE))
        THEN Parsed(Boolean(TRUE), first + 4)
        ELSE IF Matches(s, first, BooleanToString(FALSE))
        THEN Parsed(Boolean(FALSE), first + 5)
        ELSE IF Matches(s, first, NullToString)
        THEN Parsed(Null, first + 4)
        ELSE ParseFail

\* The white space after a value that was read.
SkipTrailing(s, r) ==
    IF r.ok THEN Parsed(r.val, SkipWhiteSpace(s, r.next)) ELSE ParseFail

\* A value with the white space around it.
ParseValue(s, i) == SkipTrailing(s, ParseToken(s, SkipWhiteSpace(s, i)))

\* The text is one value and nothing more.
ParseWhole(s, r) ==
    IF r.ok /\ r.next = Len(s) + 1
    THEN [ok |-> TRUE, val |-> r.val]
    ELSE [ok |-> FALSE, val |-> Undefined]

\* JSON.parse(s); ok is FALSE where it throws.
JSONparse(s) == ParseWhole(s, ParseValue(s, 1))
----------------------------------------------------------------------------
(* localStorage *)

\* getItem returns null for a key that was never set.
NoItem == [present |-> FALSE, value |-> <<>>]

Item(str) == [present |-> TRUE, value |-> str]

\* if (todos): null and the empty string are falsy.
Truthy(item) == item.present /\ item.value # <<>>

----------------------------------------------------------------------------
(* The component *)

KeyId == <<"i", "d">>
KeyText == <<"t", "e", "x", "t">>
KeyDone == <<"d", "o", "n", "e">>

\* { id: id, text: text, done: done }
Todo(id, text, done) ==
    Object(<<Property(KeyId, Number(id)),
             Property(KeyText, String(text)),
             Property(KeyDone, Boolean(done))>>)

\* The mutant: a slot that does not parse is taken as absent.
initializer_fallback(item) ==
    IF Truthy(item) /\ JSONparse(item.value).ok THEN JSONparse(item.value)
    ELSE [ok |-> TRUE, val |-> Array(<<>>)]

\* The useState initializer; ok is FALSE where it throws.
initializer(item) ==
    IF Truthy(item) THEN JSONparse(item.value)
    ELSE [ok |-> TRUE, val |-> Array(<<>>)]

\* {item.text}: React renders a string or a number, nothing for undefined,
\* null or a boolean, the elements of an array, and throws on an object.
RECURSIVE ValidChild(_)
ValidChild(value) ==
    CASE value.t = "object" -> FALSE
      [] value.t = "array" ->
            \A k \in 1..Len(value.v) : ValidChild(value.v[k])
      [] OTHER -> TRUE

KeyToString == <<"t", "o", "S", "t", "r", "i", "n", "g">>

\* The object has an own property of that key.
HasOwnProperty(value, key) ==
    /\ value.t = "object"
    /\ \E k \in 1..Len(value.v) : value.v[k].key = key

\* key={item.id}: React makes the key a string, '' + key.  An object is
\* converted by its toString, which an own property "toString" hides, and
\* no parsed value can be called; an array joins the strings of its
\* elements, those of undefined and null being empty.
RECURSIVE ToStringThrows(_)
ToStringThrows(value) ==
    CASE value.t = "object" -> HasOwnProperty(value, KeyToString)
      [] value.t = "array" ->
            \E k \in 1..Len(value.v) : ToStringThrows(value.v[k])
      [] OTHER -> FALSE

\* The render of the list: todos.map throws on a value that is not an
\* array, item.id on an element that is null, the key on an id that has no
\* string, {item.text} on an object.
RenderThrows(value) ==
    \/ value.t # "array"
    \/ \E k \in 1..Len(value.v) :
         \/ value.v[k].t = "null"
         \/ ToStringThrows(Get(value.v[k], KeyId))
         \/ ~ValidChild(Get(value.v[k], KeyText))

\* The mutant: the new item is put first.
add_first(list, text) == <<Todo(Len(list) + 1, text, FALSE)>> \o list

\* The array the add button passes to setTodos.
add(list, text) == Append(list, Todo(Len(list) + 1, text, FALSE))

\* The own properties { ...value } copies.
Spread(value) ==
    CASE value.t = "object" -> value.v
      [] value.t = "array" ->
            [k \in 1..Len(value.v) |->
                Property(NaturalToString(k - 1), value.v[k])]
      [] value.t = "string" ->
            [k \in 1..Len(value.v) |->
                Property(NaturalToString(k - 1), String(<<value.v[k]>>))]
      [] OTHER -> <<>>

\* The mutant: the checkbox sets the flag instead of flipping it.
toggle_set(list, id, at) ==
    [k \in 1..Len(list) |->
        IF StrictEquals(Get(list[k], KeyId), id, k = at)
        THEN Object(DefineProperty(Spread(list[k]), KeyDone, Boolean(TRUE)))
        ELSE list[k]]

\* The array the checkbox of the item at place `at`, whose id is `id`,
\* passes to setTodos (at is 0 for an id that is read from no item).
toggle(list, id, at) ==
    [k \in 1..Len(list) |->
        IF StrictEquals(Get(list[k], KeyId), id, k = at)
        THEN Object(DefineProperty(Spread(list[k]), KeyDone,
                        Boolean(~ToBoolean(Get(list[k], KeyDone)))))
        ELSE list[k]]

\* The array the delete button of the item at place `at`, whose id is `id`,
\* passes to setTodos.
remove(list, id, at) ==
    LET kept[k \in 0..Len(list)] ==
            IF k = 0 THEN <<>>
            ELSE IF StrictEquals(Get(list[k], KeyId), id, k = at)
                 THEN kept[k - 1]
                 ELSE Append(kept[k - 1], list[k])
    IN  kept[Len(list)]

\* The mutant: the effect writes the empty array whatever the collection.
persist_empty(list) == Item(JSONstringify(Array(<<>>)))

\* The mutant: the effect writes the collection without its last item.
persist_stale(list) ==
    Item(JSONstringify(Array(IF list = <<>> THEN list
                             ELSE SubSeq(list, 1, Len(list) - 1))))

\* The value the effect stores under 'todos'.
persist(list) == Item(JSONstringify(Array(list)))

\* The persisted slot of the scenario: [{"id":5,"text":"x","done":true}]
SlotFive ==
    <<"[", "{", "\"", "i", "d", "\"", ":", "5", ",",
      "\"", "t", "e", "x", "t", "\"", ":", "\"", "x", "\"", ",",
      "\"", "d", "o", "n", "e", "\"", ":", "t", "r", "u", "e", "}", "]">>

\* A slot written by another program, with white space and the keys in
\* another order: [{"done": true, "id": 5, "text": "x"}]
SlotSpaced ==
    <<"[", "{", "\"", "d", "o", "n", "e", "\"", ":", " ", "t", "r", "u", "e",
      ",", " ", "\"", "i", "d", "\"", ":", " ", "5", ",", " ",
      "\"", "t", "e", "x", "t", "\"", ":", " ", "\"", "x", "\"", "}", "]">>

\* A slot that is not JSON: [{
SlotMalformed == <<"[", "{">>

\* A slot that is JSON and not an array: null
SlotNull == <<"n", "u", "l", "l">>

\* A slot whose item has an id without a string: [{"id":{"toString":1}}]
SlotBadKey ==
    <<"[", "{", "\"", "i", "d", "\"", ":", "{", "\"", "t", "o", "S", "t",
      "r", "i", "n", "g", "\"", ":", "1", "}", "}", "]">>

InitSlots ==
    { NoItem, Item(<<"[", "]">>), Item(SlotFive), Item(SlotSpaced),
      Item(SlotMalformed), Item(SlotNull), Item(SlotBadKey) }

\* The mutant: dec adds one.
counterReducer_decUp(state, type) ==
    CASE type = "inc" -> state + 1
      [] type = "dec" -> state + 1
      [] type = "reset" -> 0
      [] OTHER -> state

counterReducer(state, type) ==
    CASE type = "inc" -> state + 1
      [] type = "dec" -> state - 1
      [] type = "reset" -> 0
      [] OTHER -> state

\* useReducer(counterReducer, 0)
CounterInit ==
    /\ count = 0
    /\ incs = 0
    /\ decs = 0
    /\ resets = 0

\* The first render after the initializer gave r: it fails where the
\* initializer threw and where the render of the list throws; todos is then
\* left empty, no component being there to hold it.
FirstRender(r) ==
    IF r.ok /\ ~RenderThrows(r.val)
    THEN [todos |-> r.val.v, inputValue |-> <<>>, phase |-> "mounted"]
    ELSE [todos |-> <<>>, inputValue |-> <<>>, phase |-> "failed"]

\* The component as first rendered over the slot: both useState initial
\* values.
Mount(item) == FirstRender(initializer(item))

\* The component is in the state m.
Mounted(m) ==
    /\ todos = m.todos
    /\ inputValue = m.inputValue
    /\ phase = m.phase

Init ==
    /\ slot \in InitSlots
    /\ Mounted(Mount(slot))
    /\ CounterInit

\* The mutant: the effect has no dependency array and runs after the
\* render that follows a change of the draft.
SetInput_effect ==
    /\ phase = "idle"
    /\ \E value \in Texts : inputValue' = value
    /\ phase' = "dirty"
    /\ UNCHANGED <<todos, slot>>
    /\ UNCHANGED counterVars

\* The text input's onChange.
SetInput ==
    /\ phase = "idle"
    /\ \E value \in Texts : inputValue' = value
    /\ UNCHANGED <<todos, slot, phase>>
    /\ UNCHANGED counterVars

\* The add button's onClick.
Add ==
    /\ phase = "idle"
    /\ Len(todos) < MaxLen
    /\ todos' = add(todos, inputValue)
    /\ inputValue' = <<>>
    /\ phase' = "dirty"
    /\ UNCHANGED slot
    /\ UNCHANGED counterVars

\* The onChange of the checkbox rendered for todos[i].
Toggle ==
    /\ phase = "idle"
    /\ \E i \in 1..Len(todos) :
         todos' = toggle(todos, Get(todos[i], KeyId), i)
    /\ phase' = "dirty"
    /\ UNCHANGED <<inputValue, slot>>
    /\ UNCHANGED counterVars

\* The onClick of the delete button rendered for todos[i].
Remove ==
    /\ phase = "idle"
    /\ \E i \in 1..Len(todos) :
         todos' = remove(todos, Get(todos[i], KeyId), i)
    /\ phase' = "dirty"
    /\ UNCHANGED <<inputValue, slot>>
    /\ UNCHANGED counterVars

\* The effect on [todos]: after the first render and after each setTodos.
Effect ==
    /\ phase \in {"mounted", "dirty"}
    /\ slot' = persist(todos)
    /\ phase' = "idle"
    /\ UNCHANGED <<todos, inputValue>>
    /\ UNCHANGED counterVars

\* The component is rendered anew in the state m.
Remounted(m) ==
    /\ todos' = m.todos
    /\ inputValue' = m.inputValue
    /\ phase' = m.phase

\* The page is loaded again: the component is built from the slot.
Restart ==
    /\ phase \in {"idle", "failed"}
    /\ Remounted(Mount(slot))
    /\ UNCHANGED slot
    /\ UNCHANGED counterVars

Next == SetInput \/ Add \/ Toggle \/ Remove \/ Effect \/ Restart

Spec == Init /\ [][Next]_vars

\* Values another writer of the same origin stores under 'todos'.
ExternalValues ==
    { NoItem, Item(SlotFive), Item(SlotSpaced), Item(SlotMalformed) }

\* Another writer sets or removes the 'todos' key; the component does not
\* listen for storage events.
ExternalWrite ==
    /\ \E item \in ExternalValues : slot' = item
    /\ UNCHANGED <<todos, inputValue, phase>>
    /\ UNCHANGED counterVars

NextExternal ==
    SetInput \/ Add \/ Toggle \/ Remove \/ Effect \/ Restart \/ ExternalWrite

SpecExternal == Init /\ [][NextExternal]_vars

\* The slots of InitSlots and the slot that holds the empty string.
StoredSlots == InitSlots \cup { Item(<<>>) }

InitStored ==
    /\ slot \in StoredSlots
    /\ Mounted(Mount(slot))
    /\ CounterInit

SpecStored == InitStored /\ [][Next]_vars

\* The slot is empty or absent when the component is first built.
InitEmpty ==
    /\ slot \in { NoItem, Item(<<"[", "]">>) }
    /\ Mounted(Mount(slot))
    /\ CounterInit

NextOps == SetInput \/ Add \/ Toggle \/ Remove \/ Effect

SpecEmpty == InitEmpty /\ [][NextOps]_vars

\* Collections with unique ids that an earlier session can have persisted.
StartCollections ==
    { <<>> } \cup
    { <<Todo(i, t, d)>> :
        i \in {1, 2, 5}, t \in Texts, d \in BOOLEAN }

InitAddOnly ==
    /\ slot \in { persist(c) : c \in StartCollections }
    /\ Mounted(Mount(slot))
    /\ CounterInit

NextAddOnly == SetInput \/ Add \/ Effect

SpecAddOnly == InitAddOnly /\ [][NextAddOnly]_vars

----------------------------------------------------------------------------
(* ReducerApp *)

\* The Increment button: dispatch({ type: 'inc' }).
Inc ==
    /\ incs < MaxDispatch
    /\ count' = counterReducer(count, "inc")
    /\ incs' = incs + 1
    /\ UNCHANGED <<decs, resets>>
    /\ UNCHANGED todoVars

\* The Decrement button: dispatch({ type: 'dec' }).
Dec ==
    /\ decs < MaxDispatch
    /\ count' = counterReducer(count, "dec")
    /\ decs' = decs + 1
    /\ UNCHANGED <<incs, resets>>
    /\ UNCHANGED todoVars

\* The Reset button: dispatch({ type: 'reset' }).
Reset ==
    /\ resets < MaxResets
    /\ count' = counterReducer(count, "reset")
    /\ incs' = 0
    /\ decs' = 0
    /\ resets' = resets + 1
    /\ UNCHANGED todoVars

\* ReducerApp alone, beside a todo list that is left as first rendered.
InitCounter ==
    /\ slot = NoItem
    /\ Mounted(Mount(slot))
    /\ CounterInit

NextCounter == Inc \/ Dec \/ Reset

SpecCounter == InitCounter /\ [][NextCounter]_vars

---------------------------------------------------------------------------------------------------------------------------------------------------
(* Properties *)

IdOf(todo) == Get(todo, KeyId)

TextOf(todo) == Get(todo, KeyText)

DoneOf(todo) == Get(todo, KeyDone)

IsDone(todo) == DoneOf(todo) = Boolean(TRUE)

IdsOf(list) == { IdOf(list[k]) : k \in 1..Len(list) }

HasId(list, id) == \E k \in 1..Len(list) : IdOf(list[k]) = Number(id)

MaxOf(S) == IF S = {} THEN 0 ELSE CHOOSE m \in S : \A n \in S : n <= m

\* C1: starting from an empty or absent slot, after any sequence of add,
\* toggle and remove no two items of the collection have the same id.
C1_NoTwoItemsShareAnId ==
    \A i, j \in 1..Len(todos) : i # j => IdOf(todos[i]) # IdOf(todos[j])

\* C2: for any collection and any text, adding the text and then removing
\* the item just added gives back the collection as it was before the add.
C2_AddThenRemoveRestores ==
    \A text \in Texts :
        LET added == add(todos, text)
            last == Len(added)
        IN  remove(added, IdOf(added[last]), last) = todos

\* C3: for any collection and any id, present or absent, toggling the id
\* twice gives back the collection: same items, same flags, same order.
C3_ToggleTwiceIsIdentity ==
    /\ \A id \in ProbeIds :
         toggle(toggle(todos, Number(id), 0), Number(id), 0) = todos
    /\ \A i \in 1..Len(todos) :
         toggle(toggle(todos, IdOf(todos[i]), i), IdOf(todos[i]), i) = todos

\* A toggled item in a collection of two, with ids present and absent.
C3_Witness ==
    /\ Len(todos) = 2
    /\ IsDone(todos[1])
    /\ ~IsDone(todos[2])
    /\ \E id \in ProbeIds : HasId(todos, id)
    /\ \E id \in ProbeIds : ~HasId(todos, id)

\* C4: from a starting collection with unique ids, the ids are unique after
\* any sequence of add operations.
C4_AddsKeepIdsUnique == Cardinality(IdsOf(todos)) = Len(todos)

EffectPending == phase \in {"mounted", "dirty"}

EffectWritesFirst ==
    /\ todos' = todos
    /\ slot' = Item(JSONstringify(Array(todos)))
    /\ phase' = "idle"

\* C5: whenever a user event can fire the slot holds the serialization of
\* the collection; each add, toggle and remove schedules the effect, and the
\* pending effect writes the collection it follows before anything else
\* happens.
C5_SlotFollowsCollection ==
    /\ [](phase = "idle" => slot = Item(JSONstringify(Array(todos))))
    /\ [][(Add \/ Toggle \/ Remove) => phase' = "dirty"]_vars
    /\ [][EffectPending => EffectWritesFirst]_vars

\* Two items, one done, written to the slot after the last mutation.
C5_Witness ==
    /\ phase = "idle"
    /\ Len(todos) = 2
    /\ IsDone(todos[1])
    /\ TextOf(todos[2]) = String(<<"\"", "\\", "\t">>)
    /\ slot = Item(JSONstringify(Array(todos)))

\* The slot holds the text JSON.stringify gives for what was read from it.
SlotIsCanonical == slot.value = JSONstringify(Array(todos))

\* C6: the first render holds the empty collection when the slot is absent
\* and otherwise the sequence the slot stores, the slot of the scenario
\* giving one item with id 5 that is done; loading the page again after any
\* operations gives the collection held just before.
C6_LoadReproducesSlot ==
    /\ [](phase = "mounted" =>
            /\ ~slot.present => todos = <<>>
            /\ slot.present =>
                 /\ JSONparse(slot.value) = [ok |-> TRUE, val |-> Array(todos)]
                 /\ slot # Item(SlotSpaced) => SlotIsCanonical
            /\ slot = Item(SlotFive) => todos = <<Todo(5, <<"x">>, TRUE)>>
            /\ slot = Item(SlotSpaced) =>
                 todos = <<Object(<<Property(KeyDone, Boolean(TRUE)),
                                    Property(KeyId, Number(5)),
                                    Property(KeyText, String(<<"x">>))>>)>>)
    /\ [][(Restart /\ phase = "idle") =>
            (phase' = "mounted" /\ todos' = todos)]_vars

\* The page was loaded again over two stored items, one of them done and
\* one whose text needs escaping.
C6_Witness ==
    /\ phase = "mounted"
    /\ slot.present
    /\ Len(todos) = 2
    /\ IsDone(todos[1])
    /\ TextOf(todos[2]) = String(<<"\"", "\\", "\t">>)

\* C7: add gives the new item the id max(existing ids, default 0) + 1.
C7_NewIdIsMaxPlusOne ==
    \A text \in Texts :
        LET added == add(todos, text) IN
        IdOf(added[Len(added)]) =
            Number(MaxOf({ id.v : id \in IdsOf(todos) }) + 1)

\* C8: toggle of an id no item has leaves the collection unchanged; toggle
\* of an id an item has flips the done flag of exactly that one item and
\* changes nothing else, the length and the order included.
C8_ToggleFlipsExactlyOne ==
    \A id \in ProbeIds :
        LET r == toggle(todos, Number(id), 0) IN
        /\ Len(r) = Len(todos)
        /\ ~HasId(todos, id) => r = todos
        /\ HasId(todos, id) =>
             /\ Cardinality({ k \in 1..Len(todos) :
                                DoneOf(r[k]) # DoneOf(todos[k]) }) = 1
             /\ \A k \in 1..Len(todos) :
                  /\ IdOf(r[k]) = IdOf(todos[k])
                  /\ TextOf(r[k]) = TextOf(todos[k])
                  /\ DoneOf(r[k]) # DoneOf(todos[k]) =>
                       IdOf(todos[k]) = Number(id)

\* C9: remove keeps every item but the one with the id, in order and with
\* fields unchanged: one item shorter when an item has the id, unchanged
\* when none has.
C9_RemoveDropsExactlyOne ==
    \A id \in ProbeIds :
        LET r == remove(todos, Number(id), 0) IN
        /\ ~HasId(todos, id) => r = todos
        /\ HasId(todos, id) =>
             /\ Len(r) = Len(todos) - 1
             /\ \E k \in 1..Len(todos) :
                  /\ IdOf(todos[k]) = Number(id)
                  /\ r = SubSeq(todos, 1, k - 1)
                           \o SubSeq(todos, k + 1, Len(todos))

\* C10: the add button appends exactly one item, placed last, not done and
\* with the draft as its text; the items already there keep their fields
\* and positions; the draft is empty right after.
C10_AddAppendsDraft ==
    [][Add =>
        (/\ Len(todos') = Len(todos) + 1
         /\ SubSeq(todos', 1, Len(todos)) = todos
         /\ TextOf(todos'[Len(todos')]) = String(inputValue)
         /\ DoneOf(todos'[Len(todos')]) = Boolean(FALSE)
         /\ inputValue' = <<>>)]_vars

\* A typed text was just added after an item that is done.
C10_Witness ==
    /\ phase = "dirty"
    /\ Len(todos) = 2
    /\ IsDone(todos[1])
    /\ todos[2] = Todo(2, <<"a">>, FALSE)
    /\ inputValue = <<>>

\* The arrays the handlers of the current render can pass to setTodos.
HandlerResults ==
    {todos, add(todos, inputValue)}
        \cup { toggle(todos, IdOf(todos[i]), i) : i \in 1..Len(todos) }
        \cup { remove(todos, IdOf(todos[i]), i) : i \in 1..Len(todos) }

MutationPending == phase = "dirty"

EffectOverwrites ==
    \/ /\ phase' = "idle"
       /\ todos' = todos
       /\ slot' = Item(JSONstringify(Array(todos)))
    \/ /\ phase' = "dirty"
       /\ todos' = todos

\* C11: the slot is read at startup only: but for a page load every step
\* takes the collection from the collection, never from the slot; a write
\* of the slot by another writer leaves the collection as it is; and the
\* write that follows the next add, toggle or remove replaces whatever the
\* slot holds by the serialization of the collection.
C11_SlotReadOnlyAtStartup ==
    /\ [][Restart \/ todos' \in HandlerResults]_vars
    /\ [][ExternalWrite => (todos' = todos /\ phase' = phase)]_vars
    /\ [][(Add \/ Toggle \/ Remove) => phase' = "dirty"]_vars
    /\ [][MutationPending => EffectOverwrites]_vars

\* Another writer stored the scenario's slot over a collection of two items
\* built here, and a mutation of that collection awaits its write.
C11_Witness ==
    /\ phase = "dirty"
    /\ slot = Item(SlotFive)
    /\ Len(todos) = 2
    /\ IdOf(todos[1]) = Number(1)
    /\ IsDone(todos[2])

\* The slot holds a text JSON.parse throws on, the empty string included.
SlotDoesNotParse == slot.present /\ ~JSONparse(slot.value).ok

StartupFailed == phase = "failed"

SlotKept == slot' = slot /\ phase' = "failed"

\* C12, as stated: when the slot holds a text that does not parse, startup
\* fails: no handler and no effect can run, and the slot keeps its content,
\* however often the page is loaded again.
C12_MalformedSlotFailsStartup ==
    /\ [](SlotDoesNotParse => StartupFailed)
    /\ [](StartupFailed =>
            ~ENABLED (SetInput \/ Add \/ Toggle \/ Remove \/ Effect))
    /\ [][StartupFailed => SlotKept]_vars

SlotIsEmptyString == slot = Item(<<>>)

EmptyStringOverwritten ==
    /\ slot' = Item(<<"[", "]">>)
    /\ todos' = todos
    /\ phase' = "idle"

\* C12, corrected: when the slot holds a text that is not empty and does
\* not parse, startup fails: no handler and no effect can run, and the slot
\* keeps its content, however often the page is loaded again.  The empty
\* string does not parse either, but is taken as an absent slot: the first
\* render holds the empty collection and its effect writes [] over it.
C12_NonEmptyMalformedSlotFailsStartup ==
    /\ []((SlotDoesNotParse /\ ~SlotIsEmptyString) => StartupFailed)
    /\ [](StartupFailed =>
            ~ENABLED (SetInput \/ Add \/ Toggle \/ Remove \/ Effect))
    /\ [][StartupFailed => SlotKept]_vars
    /\ [](SlotIsEmptyString => (phase = "mounted" /\ todos = <<>>))
    /\ [][SlotIsEmptyString => EmptyStringOverwritten]_vars

\* The first render threw on the malformed slot, which is still there.
C12_Witness ==
    /\ phase = "failed"
    /\ slot = Item(SlotMalformed)
    /\ SlotDoesNotParse

\* C13: setting the draft changes neither the collection nor the slot and
\* schedules no write; toggle and remove leave the draft as it is.
C13_DraftIsIndependent ==
    /\ [][SetInput =>
            (todos' = todos /\ slot' = slot /\ phase' = "idle")]_vars
    /\ [][(Toggle \/ Remove) => inputValue' = inputValue]_vars

\* A checkbox was clicked while a typed draft was waiting.
C13_Witness ==
    /\ phase = "dirty"
    /\ inputValue = <<"a">>
    /\ Len(todos) = 2
    /\ IsDone(todos[2])
    /\ slot = Item(JSONstringify(Array(toggle(todos, IdOf(todos[2]), 2))))

\* C14: the counter starts at 0 and is always the number of inc actions
\* minus the number of dec actions dispatched since the last reset; reset
\* gives 0 from any state and inc followed by dec gives back the value.
C14_CounterIsIncsMinusDecs ==
    /\ count = 0
    /\ [](count = incs - decs)
    /\ [](counterReducer(count, "reset") = 0)
    /\ [](counterReducer(counterReducer(count, "inc"), "dec") = count)
    /\ [][Reset => count' = 0]_vars

\* After a reset, one inc and three dec: the counter is below zero.
C14_Witness ==
    /\ resets = 1
    /\ incs = 1
    /\ decs = 3
    /\ count = -2

====
